---- MODULE Spec2Model ----
(***************************************************************************)
(* Model of the DoseNet Raspberry Pi station: the Dosimeter event window   *)
(* (src/dosimeter.py), the LED driver with its blink subprocess and the    *)
(* NetworkStatus polling task (src/auxiliaries.py).                        *)
(*                                                                         *)
(* Time is counted in whole seconds since EPOCH_START_TIME.  LED blink     *)
(* intervals are counted in tenths of a second.                            *)
(***************************************************************************)
EXTENDS Integers, Sequences, FiniteSets, TLC

VARIABLES
    \* ---- Dosimeter (src/dosimeter.py) ----
    clock,          \* datetime.datetime.now(), as seconds since the epoch
    accum_time,     \* Dosimeter.accum_time
    counts,         \* Dosimeter.counts, the deque of timestamps
    hasLED,         \* Dosimeter.LED is not None
    gpio,           \* the GPIO channels are set up (FALSE after GPIO.cleanup())
    edge_detect,    \* a falling-edge callback is registered on SIGNAL_PIN
    cpc,            \* position of the count() callback (interrupt thread)
    rpc,            \* position of the periodic reader inside check_accumulation()
    call,           \* which method the reader called
    nowRead,        \* the clock value read by the last head comparison
    countRaised,    \* an exception has propagated out of count()
    \* ---- observers of the Dosimeter ----
    recorded,       \* every timestamp ever appended, in append order
    tExit,          \* the clock when the trim loop last decided to stop
    lastPopped,     \* the latest popleft(): the event and the clock it was compared with
    prev,           \* the window as the previous reader call left it
    appended,       \* count() has appended since the previous reader call returned
    midTrim,        \* count() has appended while the current reader call was in its loop
    \* ---- LED (src/auxiliaries.py, src/dosimeter.py) ----
    pin,            \* level of the LED's output pin
    blinker,        \* LED.blinker: 0 for None, else the index in procs of the Process
    procs,          \* every blink Process ever started: [st, interval, phase]
    opc,            \* position of the LED's caller inside flash()
    lastCmd,        \* the last LED method the caller completed
    ledRaised,      \* an exception has propagated out of an LED method
    staleWrite,     \* a blink process wrote the pin after terminate() was called on it
    \* ---- NetworkStatus (src/auxiliaries.py) ----
    is_up,          \* NetworkStatus.is_up
    network_led,    \* NetworkStatus.led is not None
    npc,            \* position of the _do_pings loop
    outcomes,       \* the exit status of every ping made, in order
    states,         \* is_up after every update(), in order
    sleeps,         \* the argument of every sleep() of the loop, in order
    pings,          \* number of calls of _ping()
    loops,          \* number of loop iterations begun
    parent_is_up,   \* is_up of the NetworkStatus object in the process that built it
    cleanedAt,      \* -1, or the number of pings made when cleanup() was called
    p_gpio,         \* the GPIO set-up of the _do_pings process, copied when it was forked
    droveOff,       \* the last update() switched the LED output from on to off on its way
    \* ---- DosimeterTimer and the re-arming of the interrupt (src/dosimeter.py) ----
    running,        \* DosimeterTimer.running
    tpc,            \* position of DosimeterTimer.start()
    ticks,          \* number of passes made through the loop of start()
    emitted,        \* the (count, interval) samples handed on by the loop
    bounce,         \* bouncetime of the registered edge detection, 0 when there is none
    gpc,            \* position of reset_GPIO()
    resetRaised,    \* an exception has propagated out of reset_GPIO()
    readerRaised    \* an exception has propagated out of check_accumulation()

dvars == <<clock, accum_time, counts, hasLED, gpio, edge_detect, cpc, rpc, call,
           nowRead, countRaised, recorded, tExit, lastPopped, prev, appended, midTrim>>
lvars == <<pin, blinker, procs, opc, lastCmd, ledRaised, staleWrite>>
nvars == <<is_up, network_led, npc, outcomes, states, sleeps, pings, loops,
           parent_is_up, cleanedAt, p_gpio, droveOff>>
tvars == <<running, tpc, ticks, emitted, bounce, gpc, resetRaised, readerRaised>>
vars == <<dvars, lvars, nvars, tvars>>

(***************************************************************************)
(* Bounds of the model                                                     *)
(***************************************************************************)
MaxD == 2          \* retention durations 1..MaxD
Slack == 1         \* the clock runs up to accum_time + Slack
MaxEvents == 3     \* at most this many count() callbacks

(***************************************************************************)
(* Program constants                                                       *)
(***************************************************************************)
test_accum_time == 30
None == 0

NoPop == [t |-> -1, now |-> -1]

(***************************************************************************)
(* Dosimeter                                                               *)
(***************************************************************************)

\* time_float(datetime.datetime.now() - self.accum_time)
time_float(now, D) == now - D

StillFresh_ge(head, now, D) == head >= time_float(now, D)
StillFresh_never(head, now, D) == FALSE
\* the break condition of check_accumulation: self.counts[0] > time_float(now - accum_time)
StillFresh(head, now, D) == head > time_float(now, D)

bool_always(q) == TRUE
\* the truth value of a deque, as in "while self.counts:"
bool(q) == q # <<>>

pop_right(q) == SubSeq(q, 1, Len(q) - 1)
\* collections.deque.popleft()
popleft(q) == Tail(q)

append_left(q, t) == <<t>> \o q
append_stale(q, t) == Append(q, t - 1)
\* collections.deque.append()
append(q, t) == Append(q, t)

(***************************************************************************)
(* LED: the object's fields and its pin, as one record                     *)
(*   [pin, blinker, procs]                                                 *)
(* Every method returns the new record and whether it raised.              *)
(***************************************************************************)
LEDstate == [pin |-> pin, blinker |-> blinker, procs |-> procs]

Ok(L) == [led |-> L, raised |-> FALSE]
Raise(L) == [led |-> L, raised |-> TRUE]

\* GPIO.output(self.pin, level): RuntimeError when the channel is not set up
GPIO_output(L, g, level) ==
    IF g THEN Ok([L EXCEPT !.pin = level]) ELSE Raise(L)

\* LED.on, the same in both files: no exception handler
LED_on(L, g) == GPIO_output(L, g, TRUE)

\* LED.off of src/dosimeter.py: no exception handler
DLED_off(L, g) == GPIO_output(L, g, FALSE)

\* LED.off of src/auxiliaries.py: RuntimeError is caught and dropped
LED_off(L, g) ==
    LET r == GPIO_output(L, g, FALSE) IN IF r.raised THEN Ok(L) ELSE r

\* multiprocessing.Process.terminate(): SIGTERM is sent and the call returns;
\* the process ends when the signal is delivered
terminate(ps, b) ==
    IF ps[b].st = "running" THEN [ps EXCEPT ![b].st = "signalled"] ELSE ps

\* multiprocessing.Process(target=self._do_blink, ...).start(): the child
\* gets a copy of the parent's GPIO set-up and begins _do_blink at self.on()
NewProcess(interval, g) ==
    [st |-> "running", interval |-> interval, phase |-> "on", gpio |-> g]

\* LED.start_blink, the same in both files
start_blink(L, g, interval) ==
    LET ps == IF L.blinker # None THEN terminate(L.procs, L.blinker) ELSE L.procs
        new == Append(ps, NewProcess(interval, g))
    IN  Ok([L EXCEPT !.procs = new, !.blinker = Len(new)])

stop_blink_unguarded(L, g) ==
    IF L.blinker = None THEN Raise(L)
    ELSE LED_off([L EXCEPT !.procs = terminate(L.procs, L.blinker)], g)
\* LED.stop_blink of src/auxiliaries.py
stop_blink(L, g) ==
    LET ps == IF L.blinker # None THEN terminate(L.procs, L.blinker) ELSE L.procs
    IN  LED_off([L EXCEPT !.procs = ps], g)

SetLED(L) ==
    /\ pin' = L.pin
    /\ blinker' = L.blinker
    /\ procs' = L.procs

(***************************************************************************)
(* Dosimeter.count, the callback of the falling edge on SIGNAL_PIN.        *)
(* It runs in the interrupt thread of the GPIO library: one callback at a  *)
(* time, concurrently with the reader.                                     *)
(***************************************************************************)

\* self.counts.append(now_float()); then LED.flash() when an LED was given
count_append ==
    /\ edge_detect
    /\ cpc = "idle"
    /\ Len(recorded) < MaxEvents
    /\ counts' = append(counts, clock)
    /\ recorded' = Append(recorded, clock)
    /\ appended' = TRUE
    /\ midTrim' = (midTrim \/ rpc \in {"while", "if", "popleft"})
    /\ cpc' = IF hasLED THEN "flash_on" ELSE "idle"
    /\ UNCHANGED <<clock, accum_time, hasLED, gpio, edge_detect, rpc, call, nowRead,
                   countRaised, tExit, lastPopped, prev>>
    /\ UNCHANGED <<lvars, nvars, tvars>>

\* LED.flash: self.on(), then sleep(0.005)
count_flash_on ==
    /\ cpc = "flash_on"
    /\ LET r == LED_on(LEDstate, gpio) IN
         /\ SetLED(r.led)
         /\ cpc' = IF r.raised THEN "idle" ELSE "flash_sleep"
         /\ countRaised' = (countRaised \/ r.raised)
    /\ UNCHANGED <<clock, accum_time, counts, hasLED, gpio, edge_detect, rpc, call,
                   nowRead, recorded, tExit, lastPopped, prev, appended, midTrim>>
    /\ UNCHANGED <<opc, lastCmd, ledRaised, staleWrite, nvars, tvars>>

\* LED.flash: self.off() after the sleep; count() returns
count_flash_off ==
    /\ cpc = "flash_sleep"
    /\ LET r == DLED_off(LEDstate, gpio) IN
         /\ SetLED(r.led)
         /\ countRaised' = (countRaised \/ r.raised)
    /\ cpc' = "idle"
    /\ UNCHANGED <<clock, accum_time, counts, hasLED, gpio, edge_detect, rpc, call,
                   nowRead, recorded, tExit, lastPopped, prev, appended, midTrim>>
    /\ UNCHANGED <<opc, lastCmd, ledRaised, staleWrite, nvars, tvars>>

\* Dosimeter.cleanup: GPIO.cleanup() resets every channel and removes the
\* edge detection
cleanup ==
    /\ gpio
    /\ gpio' = FALSE
    /\ edge_detect' = FALSE
    /\ bounce' = 0
    /\ UNCHANGED <<clock, accum_time, counts, hasLED, cpc, rpc, call, nowRead,
                   countRaised, recorded, tExit, lastPopped, prev, appended, midTrim>>
    /\ UNCHANGED <<running, tpc, ticks, emitted, gpc, resetRaised, readerRaised>>
    /\ UNCHANGED <<lvars, nvars>>

(***************************************************************************)
(* The periodic reader: check_accumulation() and get_all_counts()          *)
(***************************************************************************)
Methods == {"check_accumulation", "get_all_counts"}
NoPrev == <<-1>>

\* the reader calls check_accumulation(), directly or through get_all_counts()
reader_call ==
    /\ rpc = "idle"
    /\ \E m \in Methods : call' = m
    /\ rpc' = "while"
    /\ midTrim' = FALSE
    /\ UNCHANGED <<clock, accum_time, counts, hasLED, gpio, edge_detect, cpc, nowRead,
                   countRaised, recorded, tExit, lastPopped, prev, appended>>
    /\ UNCHANGED <<lvars, nvars, tvars>>

\* while self.counts:
check_while ==
    /\ rpc = "while"
    /\ IF bool(counts)
         THEN rpc' = "if" /\ tExit' = tExit
         ELSE rpc' = "return" /\ tExit' = clock
    /\ UNCHANGED <<clock, accum_time, counts, hasLED, gpio, edge_detect, cpc, call,
                   nowRead, countRaised, recorded, lastPopped, prev, appended, midTrim>>
    /\ UNCHANGED <<lvars, nvars, tvars>>

\* if self.counts[0] > time_float(datetime.datetime.now() - self.accum_time): break
check_if ==
    /\ rpc = "if"
    /\ IF counts = <<>>
         THEN \* self.counts[0] on an empty deque: IndexError leaves the call
              /\ readerRaised' = TRUE
              /\ rpc' = "idle"
              /\ UNCHANGED <<nowRead, tExit>>
         ELSE /\ nowRead' = clock
              /\ readerRaised' = readerRaised
              /\ IF StillFresh(counts[1], clock, accum_time)
                   THEN rpc' = "return" /\ tExit' = clock
                   ELSE rpc' = "popleft" /\ tExit' = tExit
    /\ UNCHANGED <<clock, accum_time, counts, hasLED, gpio, edge_detect, cpc, call,
                   countRaised, recorded, lastPopped, prev, appended, midTrim>>
    /\ UNCHANGED <<running, tpc, ticks, emitted, bounce, gpc, resetRaised>>
    /\ UNCHANGED <<lvars, nvars>>

\* self.counts.popleft()
check_popleft ==
    /\ rpc = "popleft"
    /\ lastPopped' = [t |-> counts[1], now |-> nowRead]
    /\ counts' = popleft(counts)
    /\ rpc' = "while"
    /\ UNCHANGED <<clock, accum_time, hasLED, gpio, edge_detect, cpc, call, nowRead,
                   countRaised, recorded, tExit, prev, appended, midTrim>>
    /\ UNCHANGED <<lvars, nvars, tvars>>

\* check_accumulation() returns; get_all_counts() returns self.counts.  The
\* local `now` and what was observed of the call (its last popleft, the
\* reading that ended its loop) go out of scope with it.
reader_return ==
    /\ rpc = "return"
    /\ rpc' = "idle"
    /\ prev' = counts
    /\ appended' = FALSE
    /\ nowRead' = 0
    /\ tExit' = 0
    /\ lastPopped' = NoPop
    /\ midTrim' = FALSE
    /\ UNCHANGED <<clock, accum_time, counts, hasLED, gpio, edge_detect, cpc, call,
                   countRaised, recorded>>
    /\ UNCHANGED <<lvars, nvars, tvars>>

\* one second passes
Tick ==
    /\ clock < accum_time + Slack
    /\ clock' = clock + 1
    /\ UNCHANGED <<accum_time, counts, hasLED, gpio, edge_detect, cpc, rpc, call,
                   nowRead, countRaised, recorded, tExit, lastPopped, prev, appended, midTrim>>
    /\ UNCHANGED <<lvars, nvars, tvars>>

(***************************************************************************)
(* States after construction                                               *)
(***************************************************************************)
\* LED.__init__
LEDInit ==
    /\ pin = FALSE
    /\ blinker = None
    /\ procs = <<>>
    /\ opc = "idle"
    /\ lastCmd = "init"
    /\ ledRaised = FALSE
    /\ staleWrite = FALSE

\* NetworkStatus.__init__
NetInit ==
    /\ is_up = FALSE
    /\ network_led = FALSE
    /\ npc = "update"
    /\ outcomes = <<>>
    /\ states = <<>>
    /\ sleeps = <<>>
    /\ pings = 0
    /\ loops = 0
    /\ parent_is_up = FALSE
    /\ cleanedAt = -1
    /\ p_gpio = TRUE
    /\ droveOff = FALSE

\* DosimeterTimer.__init__
TimerInit ==
    /\ running = FALSE
    /\ tpc = "idle"
    /\ ticks = 0
    /\ emitted = <<>>

\* Dosimeter.__init__ with a positive retention of D seconds, with or without
\* a counts LED
DosimeterInit(D, withLED) ==
    /\ clock = 0
    /\ accum_time = D
    /\ counts = <<>>
    /\ hasLED = withLED
    /\ gpio = TRUE
    /\ edge_detect = TRUE
    /\ cpc = "idle"
    /\ rpc = "idle"
    /\ call = "check_accumulation"
    /\ nowRead = 0
    /\ countRaised = FALSE
    /\ recorded = <<>>
    /\ tExit = 0
    /\ lastPopped = NoPop
    /\ prev = NoPrev
    /\ appended = FALSE
    /\ midTrim = FALSE
    /\ bounce = 1
    /\ gpc = "idle"
    /\ resetRaised = FALSE
    /\ readerRaised = FALSE

Init ==
    /\ \E D \in 1..MaxD : \E withLED \in BOOLEAN : DosimeterInit(D, withLED)
    /\ LEDInit
    /\ NetInit
    /\ TimerInit

Next ==
    \/ count_append
    \/ count_flash_on
    \/ count_flash_off
    \/ cleanup
    \/ reader_call
    \/ check_while
    \/ check_if
    \/ check_popleft
    \/ reader_return
    \/ Tick

Spec == Init /\ [][Next]_vars

(***************************************************************************)
(* The accumulation test of test_Dosimeter: retention 30 s, no counts LED; *)
(* the clock is observed at the instants below.                            *)
(***************************************************************************)
Instants == {0, 5, 29, 30, 31, 35, 36}

\* time passes up to a later instant
TickTo ==
    /\ \E t \in Instants : t > clock /\ clock' = t
    /\ UNCHANGED <<accum_time, counts, hasLED, gpio, edge_detect, cpc, rpc, call,
                   nowRead, countRaised, recorded, tExit, lastPopped, prev, appended, midTrim>>
    /\ UNCHANGED <<lvars, nvars, tvars>>

InitScenario ==
    /\ DosimeterInit(test_accum_time, FALSE)
    /\ LEDInit
    /\ NetInit
    /\ TimerInit

NextScenario ==
    \/ count_append
    \/ reader_call
    \/ check_while
    \/ check_if
    \/ check_popleft
    \/ reader_return
    \/ TickTo

SpecScenario == InitScenario /\ [][NextScenario]_vars

(***************************************************************************)
(* Properties of the event window                                          *)
(***************************************************************************)
Removed == Len(recorded) - Len(counts)

\* C1 (as amended): every event check_accumulation() removes had reached the
\* age accum_time at the clock reading it was compared with (now - t >= D),
\* and when the call returns every event left in the window is younger than
\* accum_time at the reading that ended the loop (now - t < D).
C1_TrimBoundary ==
    /\ lastPopped # NoPop => lastPopped.now - lastPopped.t >= accum_time
    /\ rpc = "return" => \A i \in DOMAIN counts : tExit - counts[i] < accum_time

\* C1 as stated: every removed event satisfied now - t > D and every remaining
\* event satisfies now - t <= D.
C1_AsStated ==
    /\ lastPopped # NoPop => lastPopped.now - lastPopped.t > accum_time
    /\ rpc = "return" => \A i \in DOMAIN counts : tExit - counts[i] <= accum_time

\* an event has been removed and a later one is left when the call returns
C1_Witness ==
    /\ rpc = "return"
    /\ lastPopped # NoPop
    /\ counts # <<>>
    /\ lastPopped.now - lastPopped.t = accum_time

\* C2: with count() appending while the reader is anywhere in the trim loop,
\* the window is always the tail of what was recorded (nothing is lost or
\* duplicated in the middle), every event missing from it has reached the age
\* accum_time, and on return the window holds no more events than were
\* recorded within the retention window.
C2_ConcurrentSafety ==
    /\ Removed >= 0
    /\ counts = SubSeq(recorded, Removed + 1, Len(recorded))
    /\ \A i \in 1..Removed : clock - recorded[i] >= accum_time
    /\ rpc = "return" =>
         Len(counts) <= Cardinality({i \in DOMAIN recorded : tExit - recorded[i] < accum_time})

\* count() appended between the head comparison and the popleft()
C2_Witness ==
    /\ rpc = "popleft"
    /\ midTrim
    /\ Len(counts) >= 2
    /\ clock - counts[Len(counts)] < accum_time

Within(s, now) ==
    LET F[i \in 0..Len(s)] ==
          IF i = 0 THEN <<>>
          ELSE IF now - s[i] < accum_time THEN Append(F[i-1], s[i]) ELSE F[i-1]
    IN  F[Len(s)]

\* C3: get_all_counts() returns, in insertion order, exactly the recorded
\* events that are within the retention window at the clock reading that
\* ended its trim; with retention 30 and events at 0 and 35 the call at 36
\* returns the event at 35 alone.
C3_GetAllCounts ==
    (rpc = "return" /\ call = "get_all_counts") =>
        /\ counts = Within(recorded, tExit)
        /\ (accum_time = 30 /\ recorded = <<0, 35>> /\ tExit = 36) =>
              (counts = <<35>> /\ 36 - counts[1] < 30)

\* the scenario of the accumulation test
C3_Witness ==
    /\ rpc = "return" /\ call = "get_all_counts"
    /\ accum_time = 30 /\ recorded = <<0, 35>> /\ tExit = 36
    /\ counts = <<35>>

\* C4: a reader call made with no count() since the previous one, while every
\* event the previous call left is still within the retention window, leaves
\* the window exactly as the previous call left it.
C4_NonDestructive ==
    (/\ rpc = "return"
     /\ prev # NoPrev
     /\ ~appended
     /\ \A i \in DOMAIN prev : clock - prev[i] < accum_time)
    => (Len(counts) = Len(prev) /\ counts = prev)

\* a second call over a non-empty window, some time after the first
C4_Witness ==
    /\ rpc = "return" /\ call = "get_all_counts"
    /\ prev # NoPrev /\ prev # <<>>
    /\ ~appended
    /\ \A i \in DOMAIN prev : clock - prev[i] < accum_time
    /\ clock > prev[Len(prev)]

\* C5: no fault raised inside count() propagates out of count().
C5_CountNeverRaises == ~countRaised

(***************************************************************************)
(* The LED driver of src/auxiliaries.py, driven by one caller, and its     *)
(* blink subprocesses                                                      *)
(***************************************************************************)
MaxProcs == 3      \* at most this many blink processes are ever started
Intervals == {10, 15}   \* start_blink(interval=1) and blink_period_s = 1.5

Running == {p \in DOMAIN procs : procs[p].st = "running"}

\* LED.on()
led_on ==
    /\ opc = "idle"
    /\ LET r == LED_on(LEDstate, gpio) IN
         /\ SetLED(r.led)
         /\ ledRaised' = (ledRaised \/ r.raised)
    /\ lastCmd' = "on"
    /\ UNCHANGED <<opc, staleWrite, dvars, nvars, tvars>>

\* LED.off()
led_off ==
    /\ opc = "idle"
    /\ LET r == LED_off(LEDstate, gpio) IN
         /\ SetLED(r.led)
         /\ ledRaised' = (ledRaised \/ r.raised)
    /\ lastCmd' = "off"
    /\ UNCHANGED <<opc, staleWrite, dvars, nvars, tvars>>

\* LED.flash(): self.on(), then sleep(0.005)
led_flash_on ==
    /\ opc = "idle"
    /\ LET r == LED_on(LEDstate, gpio) IN
         /\ SetLED(r.led)
         /\ ledRaised' = (ledRaised \/ r.raised)
         /\ opc' = IF r.raised THEN "idle" ELSE "flash_sleep"
    /\ lastCmd' = "flash"
    /\ UNCHANGED <<staleWrite, dvars, nvars, tvars>>

\* LED.flash(): self.off() after the sleep
led_flash_off ==
    /\ opc = "flash_sleep"
    /\ LET r == LED_off(LEDstate, gpio) IN
         /\ SetLED(r.led)
         /\ ledRaised' = (ledRaised \/ r.raised)
    /\ opc' = "idle"
    /\ UNCHANGED <<lastCmd, staleWrite, dvars, nvars, tvars>>

\* LED.start_blink(interval)
led_start_blink ==
    /\ opc = "idle"
    /\ Len(procs) < MaxProcs
    /\ \E i \in Intervals :
         LET r == start_blink(LEDstate, gpio, i) IN
           /\ SetLED(r.led)
           /\ ledRaised' = (ledRaised \/ r.raised)
    /\ lastCmd' = "start_blink"
    /\ UNCHANGED <<opc, staleWrite, dvars, nvars, tvars>>

\* LED.stop_blink()
led_stop_blink ==
    /\ opc = "idle"
    /\ LET r == stop_blink(LEDstate, gpio) IN
         /\ SetLED(r.led)
         /\ ledRaised' = (ledRaised \/ r.raised)
    /\ lastCmd' = "stop_blink"
    /\ UNCHANGED <<opc, staleWrite, dvars, nvars, tvars>>

\* LED._do_blink in subprocess p: the next self.on() or self.off() of the
\* loop; a RuntimeError of self.on() ends the process
do_blink(p) ==
    /\ p \in DOMAIN procs
    /\ procs[p].st \in {"running", "signalled"}
    /\ LET me == procs[p]
           r == IF me.phase = "on" THEN LED_on(LEDstate, me.gpio)
                                   ELSE LED_off(LEDstate, me.gpio)
           nxt == IF me.phase = "on" THEN "off" ELSE "on"
       IN  /\ pin' = r.led.pin
           /\ procs' = [procs EXCEPT ![p].phase = nxt,
                                     ![p].st = IF r.raised THEN "dead" ELSE me.st]
           /\ staleWrite' = (staleWrite \/ (me.st = "signalled" /\ ~r.raised))
    /\ UNCHANGED <<blinker, opc, lastCmd, ledRaised, dvars, nvars, tvars>>

\* SIGTERM reaches subprocess p, which ends
sigterm(p) ==
    /\ p \in DOMAIN procs
    /\ procs[p].st = "signalled"
    /\ procs' = [procs EXCEPT ![p].st = "dead"]
    /\ UNCHANGED <<pin, blinker, opc, lastCmd, ledRaised, staleWrite, dvars, nvars, tvars>>

InitLED ==
    /\ DosimeterInit(1, FALSE)
    /\ LEDInit
    /\ NetInit
    /\ TimerInit

NextLED ==
    \/ led_on
    \/ led_off
    \/ led_flash_on
    \/ led_flash_off
    \/ led_start_blink
    \/ led_stop_blink
    \/ cleanup
    \/ \E p \in 1..MaxProcs : do_blink(p)
    \/ \E p \in 1..MaxProcs : sigterm(p)

SpecLED == InitLED /\ [][NextLED]_vars

\* C6: a blink process never writes the pin once terminate() has been called
\* on it, so a second start_blink leaves one toggling task, the newest, and
\* after stop_blink() the output is off and stays off.
C6_BlinkSupersession ==
    /\ ~staleWrite
    /\ lastCmd = "start_blink" => Running = {blinker}
    /\ lastCmd = "stop_blink" => (pin = FALSE /\ Running = {})

\* C7: on() and off() cancel a running blink task, and the output then stays
\* as requested.
C7_OnOffCancelBlink ==
    /\ lastCmd = "on" => (pin = TRUE /\ Running = {})
    /\ lastCmd = "off" => (pin = FALSE /\ Running = {})

\* C8: no blink task is running while flash() executes, and after flash() the
\* LED is off and no blink task is running.
C8_FlashNotWhileBlinking ==
    lastCmd = "flash" =>
        /\ Running = {}
        /\ opc = "idle" => pin = FALSE

(***************************************************************************)
(* NetworkStatus: the _do_pings loop, seen from the process that runs it   *)
(***************************************************************************)
MaxProbes == 4     \* at most this many pings

up_interval_s == 300
down_interval_s == 5
blink_period_s == 15      \* 1.5 s, in tenths of a second

\* wait statuses os.system() returns for ping: success (exit 0), no reply (exit 1)
PingStatus == {0, 256}

Up_nonzero(response) == response # 0
\* if response == 0:
Up(response) == response = 0

\* the LED calls of update(): stop_blink() when led.blinker is set and on()
\* after a successful ping, start_blink(interval=blink_period_s) after a
\* failed one
update_led(L, g, up) ==
    IF up
      THEN LET r == IF L.blinker # None THEN stop_blink(L, g) ELSE Ok(L)
           IN  IF r.raised THEN r ELSE LED_on(r.led, g)
      ELSE start_blink(L, g, blink_period_s)

\* the LED as update() has it between "if self.led.blinker: self.led.stop_blink()"
\* and "self.led.on()" after a successful ping; untouched after a failed one
update_led_mid(L, g, up) ==
    IF up /\ L.blinker # None THEN stop_blink(L, g).led ELSE L

while_once == FALSE
\* while True:
while_True == TRUE

Interval_swapped(up) == IF up THEN down_interval_s ELSE up_interval_s
\* if self: sleep(self.up_interval_s) else: sleep(self.down_interval_s)
Interval(up) == IF up THEN up_interval_s ELSE down_interval_s

\* one iteration of _do_pings up to its sleep: self.update()
net_update ==
    /\ npc = "update"
    /\ pings < MaxProbes
    /\ loops' = loops + 1
    /\ pings' = pings + 1
    /\ \E response \in PingStatus :
         /\ outcomes' = Append(outcomes, response)
         /\ is_up' = Up(response)
         /\ LET r == IF network_led THEN update_led(LEDstate, p_gpio, Up(response))
                                    ELSE Ok(LEDstate)
            IN  /\ SetLED(r.led)
                /\ ledRaised' = (ledRaised \/ r.raised)
                /\ npc' = IF r.raised THEN "dead" ELSE "sleep"
         /\ droveOff' = (/\ network_led
                         /\ pin
                         /\ ~update_led_mid(LEDstate, p_gpio, Up(response)).pin)
    /\ states' = Append(states, is_up')
    /\ UNCHANGED <<network_led, sleeps, parent_is_up, cleanedAt, p_gpio, opc, lastCmd, staleWrite,
                   dvars, tvars>>

\* the sleep of the iteration, chosen by bool(self)
net_sleep ==
    /\ npc = "sleep"
    /\ sleeps' = Append(sleeps, Interval(is_up))
    /\ npc' = IF while_True THEN "update" ELSE "dead"
    /\ UNCHANGED <<is_up, network_led, outcomes, states, pings, loops, parent_is_up,
                   cleanedAt, p_gpio, droveOff, lvars, dvars, tvars>>

InitNet ==
    /\ DosimeterInit(1, FALSE)
    /\ LEDInit
    /\ is_up = FALSE
    /\ network_led \in BOOLEAN
    /\ npc = "update"
    /\ outcomes = <<>>
    /\ states = <<>>
    /\ sleeps = <<>>
    /\ pings = 0
    /\ loops = 0
    /\ parent_is_up = FALSE
    /\ cleanedAt = -1
    /\ p_gpio = TRUE
    /\ droveOff = FALSE
    /\ TimerInit

\* NetworkStatus.cleanup(), called in the process that built the object:
\* GPIO.cleanup() and nothing else
net_cleanup ==
    /\ cleanedAt = -1
    /\ cleanedAt' = pings
    /\ gpio' = FALSE
    /\ edge_detect' = FALSE
    /\ bounce' = 0
    /\ UNCHANGED <<is_up, network_led, npc, outcomes, states, sleeps, pings, loops,
                   parent_is_up, p_gpio, droveOff, lvars>>
    /\ UNCHANGED <<clock, accum_time, counts, hasLED, cpc, rpc, call, nowRead,
                   countRaised, recorded, tExit, lastPopped, prev, appended, midTrim>>
    /\ UNCHANGED <<running, tpc, ticks, emitted, gpc, resetRaised, readerRaised>>

NextNet ==
    \/ net_update
    \/ net_sleep
    \/ net_cleanup
    \/ \E p \in 1..MaxProbes : do_blink(p)
    \/ \E p \in 1..MaxProbes : sigterm(p)

SpecNet == InitNet /\ [][NextNet]_vars

Down == FALSE

\* C9: is_up is False before the first probe, and after every update() it is
\* True exactly when that probe's exit status was 0; the outcomes
\* fail, fail, success, fail give Down, Down, Up, Down.
C9_LivenessFollowsProbes ==
    /\ states = <<>> => is_up = Down
    /\ Len(states) = Len(outcomes)
    /\ \A i \in DOMAIN states : states[i] = (outcomes[i] = 0)
    /\ states # <<>> => is_up = states[Len(states)]
    /\ outcomes = <<256, 256, 0, 256>> => states = <<FALSE, FALSE, TRUE, FALSE>>

\* the scripted sequence has been played
C9_Witness ==
    /\ outcomes = <<256, 256, 0, 256>>
    /\ states = <<FALSE, FALSE, TRUE, FALSE>>
    /\ is_up = Down

\* C10: the i-th sleep of the loop is up_interval_s when the i-th probe
\* succeeded and down_interval_s when it failed; every iteration makes one
\* probe, and one sleep separates consecutive probes.
C10_SleepFollowsProbe ==
    /\ \A i \in DOMAIN sleeps :
         /\ i \in DOMAIN outcomes
         /\ outcomes[i] = 0 => sleeps[i] = up_interval_s
         /\ outcomes[i] # 0 => sleeps[i] = down_interval_s
    /\ pings = loops
    /\ pings = Len(outcomes)
    /\ npc = "update" => Len(sleeps) = Len(outcomes)
    /\ npc = "sleep" => Len(sleeps) = Len(outcomes) - 1

\* both intervals have been slept
C10_Witness ==
    /\ Len(sleeps) >= 3
    /\ \E i \in DOMAIN sleeps : sleeps[i] = up_interval_s /\ outcomes[i] = 0
    /\ \E i \in DOMAIN sleeps : sleeps[i] = down_interval_s /\ outcomes[i] # 0

\* the loop is scheduled whenever it can run: a ping returns, a sleep ends
SpecNetLive == SpecNet /\ WF_vars(net_update) /\ WF_vars(net_sleep)

LastOutcome == IF states = <<>> THEN Down ELSE states[Len(states)]

\* C11: is_up read in the process that built the NetworkStatus is the outcome
\* of the last probe the polling task completed, Down before the first.
C11_ObserverSeesLastProbe == parent_is_up = LastOutcome

\* C12: while the loop sleeps after an update() with an LED attached, a
\* successful probe leaves no blink task running and the output on, a failed
\* one leaves exactly one blink task running, of period blink_period_s.
C12_IndicatorMatchesState ==
    (npc = "sleep" /\ network_led) =>
        IF is_up
          THEN pin = TRUE /\ Running = {}
          ELSE Running = {blinker} /\ procs[blinker].interval = blink_period_s

\* C14: once cleanup() has been called no further probe is made and no blink
\* task is left running.
C14_CleanupStopsTasks ==
    cleanedAt # -1 => (pings = cleanedAt /\ Running = {})

\* C19: the polling loop is never dead, and after every probe another one is
\* eventually made (up to the bound on the number of probes).
C19_PollingNeverStops ==
    /\ [](npc # "dead")
    /\ \A k \in 0..(MaxProbes - 1) : (pings = k) ~> (pings = k + 1)

\* probes of both outcomes have been followed by further probes
C19_Witness ==
    /\ pings >= 3
    /\ \E i \in 1..(Len(outcomes) - 1) : outcomes[i] = 0
    /\ \E i \in 1..(Len(outcomes) - 1) : outcomes[i] # 0

\* C13: no LED method raises to its caller, in particular on(), off(),
\* flash() and stop_blink() called after GPIO.cleanup().
C13_TornDownSwallowed == ~ledRaised

\* C16: stop_blink() never raises, with or without a blink task; it sends the
\* blink task its termination and drives the output off; a second
\* stop_blink() right after the first changes nothing; and once stop_blink()
\* was the last call no blink task is running.
C16_StopBlinkIdempotent ==
    LET r1 == stop_blink(LEDstate, gpio)
        r2 == stop_blink(r1.led, gpio)
    IN  /\ ~r1.raised
        /\ ~r2.raised
        /\ r2.led = r1.led
        /\ gpio => r1.led.pin = FALSE
        /\ blinker # None => r1.led.procs[blinker].st # "running"
        /\ lastCmd = "stop_blink" => Running = {}

\* stop_blink() has been called on an LED whose blink task had already ended
C16_Witness ==
    /\ lastCmd = "stop_blink"
    /\ blinker # None
    /\ procs[blinker].st = "dead"
    /\ pin = FALSE

\* C17: check_accumulation() never raises, and on an empty window its next
\* step is to return, with the window still empty.
C17_EmptyTrim ==
    /\ [](~readerRaised)
    /\ [][(rpc = "while" /\ counts = <<>> /\ rpc' # rpc)
            => (rpc' = "return" /\ counts' = <<>> /\ ~readerRaised')]_vars

\* a call on a window that never held an event has reached its return
C17_Witness ==
    /\ rpc = "return"
    /\ counts = <<>>
    /\ recorded = <<>>
    /\ lastPopped = NoPop

\* C18: the window is always non-decreasing in timestamp and is the tail of
\* what was recorded; a step changes it only by appending the current time
\* at the tail or by removing its head.
C18_WindowOrdered ==
    /\ [](\A i, j \in DOMAIN counts : i < j => counts[i] <= counts[j])
    /\ [](counts = SubSeq(recorded, Removed + 1, Len(recorded)))
    /\ [][\/ counts' = counts
          \/ counts' = Append(counts, clock)
          \/ (counts # <<>> /\ counts' = Tail(counts))]_vars

\* events of different times are in the window after an older one was removed
C18_Witness ==
    /\ Len(counts) >= 2
    /\ counts[1] < counts[2]
    /\ Removed >= 1

(***************************************************************************)
(* DosimeterTimer.start()/stop() and Dosimeter.reset_GPIO(), running next  *)
(* to the count() callback.  DosimeterTimer builds its Dosimeter with a    *)
(* counts LED and the default retention.                                   *)
(***************************************************************************)
MaxTicks == 3      \* at most this many passes through the loop of start()

max_accumulation_time_s == 3600
bouncetime == 1

\* DosimeterTimer.start(): self.running = True, then the loop
timer_start ==
    /\ tpc = "idle"
    /\ running' = TRUE
    /\ tpc' = "loop"
    /\ UNCHANGED <<ticks, emitted, bounce, gpc, resetRaised, readerRaised>>
    /\ UNCHANGED <<dvars, lvars, nvars>>

\* one pass of "while self.running: pass; sleep(10)": nothing is read from
\* the Dosimeter and nothing is handed on
timer_tick ==
    /\ tpc = "loop"
    /\ running
    /\ ticks < MaxTicks
    /\ ticks' = ticks + 1
    /\ UNCHANGED <<running, tpc, emitted, bounce, gpc, resetRaised, readerRaised>>
    /\ UNCHANGED <<dvars, lvars, nvars>>

\* the loop finds self.running False and start() returns
timer_exit ==
    /\ tpc = "loop"
    /\ ~running
    /\ tpc' = "idle"
    /\ UNCHANGED <<running, ticks, emitted, bounce, gpc, resetRaised, readerRaised>>
    /\ UNCHANGED <<dvars, lvars, nvars>>

\* DosimeterTimer.stop()
timer_stop ==
    /\ running
    /\ running' = FALSE
    /\ UNCHANGED <<tpc, ticks, emitted, bounce, gpc, resetRaised, readerRaised>>
    /\ UNCHANGED <<dvars, lvars, nvars>>

add_interrupt_forgotten(g, detect, b) == [detect |-> detect, bounce |-> b, raised |-> FALSE]
\* Dosimeter.add_interrupt: GPIO.add_event_detect(SIGNAL_PIN, GPIO.FALLING,
\* callback=self.count, bouncetime=1); RuntimeError when the channel is not
\* set up or already has an edge detection
add_interrupt(g, detect, b) ==
    IF ~g \/ detect THEN [detect |-> detect, bounce |-> b, raised |-> TRUE]
    ELSE [detect |-> TRUE, bounce |-> bouncetime, raised |-> FALSE]

\* reset_GPIO: GPIO.remove_event_detect(SIGNAL_PIN)
reset_remove ==
    /\ gpc \in {"idle", "done"}
    /\ edge_detect' = FALSE
    /\ bounce' = 0
    /\ gpc' = "add"
    /\ UNCHANGED <<clock, accum_time, counts, hasLED, gpio, cpc, rpc, call, nowRead,
                   countRaised, recorded, tExit, lastPopped, prev, appended, midTrim>>
    /\ UNCHANGED <<running, tpc, ticks, emitted, resetRaised, readerRaised>>
    /\ UNCHANGED <<lvars, nvars>>

\* reset_GPIO: self.add_interrupt(), and the return
reset_add ==
    /\ gpc = "add"
    /\ LET r == add_interrupt(gpio, edge_detect, bounce) IN
         /\ edge_detect' = r.detect
         /\ bounce' = r.bounce
         /\ resetRaised' = (resetRaised \/ r.raised)
    /\ gpc' = "done"
    /\ UNCHANGED <<clock, accum_time, counts, hasLED, gpio, cpc, rpc, call, nowRead,
                   countRaised, recorded, tExit, lastPopped, prev, appended, midTrim>>
    /\ UNCHANGED <<running, tpc, ticks, emitted, readerRaised>>
    /\ UNCHANGED <<lvars, nvars>>

InitTimer ==
    /\ DosimeterInit(max_accumulation_time_s, TRUE)
    /\ LEDInit
    /\ NetInit
    /\ TimerInit

NextTimer ==
    \/ timer_start
    \/ timer_tick
    \/ timer_exit
    \/ timer_stop
    \/ reset_remove
    \/ reset_add
    \/ count_append
    \/ count_flash_on
    \/ count_flash_off
    \/ TickTo

SpecTimer == InitTimer /\ [][NextTimer]_vars

\* C15: every pass of the loop of start() hands on one (count, interval)
\* sample taken from the trimmed window.
C15_TickEmits == Len(emitted) = ticks

\* C20: the steps of reset_GPIO() leave the window as it is; reset_GPIO()
\* returns without raising, with the edge detection registered with bounce
\* time 1; whenever a detection is registered its bounce time is 1; and an
\* event is recorded only while the detection is registered, once, at the
\* tail, with the current time.
C20_Rearm ==
    /\ [][(gpc' # gpc) => (counts' = counts /\ recorded' = recorded)]_vars
    /\ [][(gpc = "add" /\ gpc' = "done")
            => (edge_detect' /\ bounce' = 1 /\ ~resetRaised')]_vars
    /\ [](edge_detect => bounce = 1)
    /\ [][(recorded' # recorded)
            => (edge_detect /\ counts' = Append(counts, clock)
                            /\ recorded' = Append(recorded, clock))]_vars

\* reset_GPIO() has returned on a Dosimeter that holds events
C20_Witness ==
    /\ gpc = "done"
    /\ edge_detect
    /\ bounce = 1
    /\ counts # <<>>

(***************************************************************************)
(* The indicator across consecutive successful probes                      *)
(***************************************************************************)
\* C21: an update() whose probe succeeds when the previous probe also
\* succeeded never switches the LED output off, whatever the LED did before.
C21_SteadyWhileUp ==
    (/\ network_led
     /\ Len(states) >= 2
     /\ states[Len(states)]
     /\ states[Len(states) - 1])
    => ~droveOff

====
